---- MODULE Spec2Model ----
(***************************************************************************)
(* Verification model of the FilterKD repository:                          *)
(*   docs/label_smoothed_cross_entropy-step2.py   (distillation criterion) *)
(*   docs/kd/criterions/record_topk_predictions.py (top-k dump criterion)  *)
(*   knnbox/models/adaptive_knn_mt.py              (adaptive kNN-MT model) *)
(*                                                                         *)
(* Numbers.  Tensors of floats are modelled by exact rationals over fixed  *)
(* denominators.  A probability row is a function Vocab -> Nat whose       *)
(* entries sum to Unit (the value p stands for p/Unit).  Natural logs are  *)
(* integers in hundredths of a nat (LnC).  A loss is an integer numerator  *)
(* over LossDen hundredths of a nat, so sums, products by the code's       *)
(* coefficients and comparisons are exact.                                 *)
(***************************************************************************)
EXTENDS Integers, Sequences, FiniteSets, TLC

\* ------------------------------------------------------------- bounds
\* Vocabulary size (lprobs.size(-1)).
V == 3
\* Number of target positions of a sample after view(-1) (bsz * seq_len).
MaxTokens == 2

\* Granularity of the label-smoothing epsilon: epsilon = eps / EpsDen.
EpsDen == 10

Vocab == 0 .. (V - 1)
Pos == 1 .. MaxTokens

\* self.padding_idx: the target dictionary's pad index (fairseq: 1).
padding_idx == 1
\* A non-padding token id used as gold target, and a competing token id.
GoldTok == padding_idx - 1
OtherTok == V - 1

\* ---------------------------------------------------- numeric helpers
RECURSIVE SumTo(_, _)
\* Sum of f[1] .. f[n] for a sequence / function on 1..n.
SumTo(f, n) == IF n = 0 THEN 0 ELSE f[n] + SumTo(f, n - 1)

SumSeq(f) == SumTo(f, Len(f))

RECURSIVE SumVocabTo(_, _)
\* Sum of f[0] .. f[v] for a row indexed by Vocab (tensor.sum(dim=-1)).
SumVocabTo(f, v) == IF v < 0 THEN 0 ELSE f[v] + SumVocabTo(f, v - 1)

SumVocab(f) == SumVocabTo(f, V - 1)

RECURSIVE MaxVocabTo(_, _)
\* Largest entry of a row (tensor.max(dim=1)).
MaxVocabTo(f, v) ==
    IF v = 0 THEN f[0]
    ELSE LET m == MaxVocabTo(f, v - 1) IN IF f[v] > m THEN f[v] ELSE m

MaxVocab(f) == MaxVocabTo(f, V - 1)

RECURSIVE Pow2Floor(_)
\* Largest power of two not above n (n >= 1).
Pow2Floor(n) == IF n < 2 THEN 1 ELSE 2 * Pow2Floor(n \div 2)

RECURSIVE Log2Floor(_)
Log2Floor(n) == IF n < 2 THEN 0 ELSE 1 + Log2Floor(n \div 2)

\* ln of a positive integer in hundredths of a nat: ln 2 = 0.69 per
\* doubling, linear between consecutive powers of two.
LnC(n) == 69 * Log2Floor(n) + (69 * (n - Pow2Floor(n))) \div Pow2Floor(n)

RECURSIVE GCD(_, _)
GCD(a, b) == IF b = 0 THEN a ELSE GCD(b, a % b)

\* torch.log / math.log of the positive rational num / den, in hundredths
\* of a nat; a function of the value num / den (the fraction is reduced).
Ln(num, den) ==
    LET g == GCD(num, den) IN LnC(num \div g) - LnC(den \div g)

\* Denominator of a probability row.
Unit == 2 * V
\* Combiner(lambda_=0.999): lambda_ = KnnLambdaNum / LambdaDen.
KnnLambdaNum == 999
LambdaDen == 1000
\* Denominator of the rows get_teacher_probs returns.
CombUnit == LambdaDen * Unit
\* Denominator of the blended distillation target (weights 0.5).
BlendUnit == 2 * CombUnit
\* Common denominator of every loss value of the distillation criterion.
LossDen == BlendUnit * V * EpsDen
\* Common denominator of the loss values of record_topk_predictions.
RecDen == EpsDen * (V - 1)

\* ------------------------------------------------------ input families
\* A softmax output peaked at token v: every entry positive.
Peak(v) == [u \in Vocab |-> IF u = v THEN V + 1 ELSE 1]
\* A kNN distribution whose neighbours all vote for token v.
OneHot(v) == [u \in Vocab |-> IF u = v THEN Unit ELSE 0]
\* A kNN distribution whose neighbours split evenly between a and b.
Tie(a, b) == [u \in Vocab |-> IF u = a \/ u = b THEN V ELSE 0]

SoftmaxRows == {Peak(GoldTok), Peak(OtherTok)}
KnnRows == {OneHot(GoldTok), Tie(GoldTok, OtherTok), OneHot(OtherTok)}
Targets == {GoldTok, padding_idx}
EpsChoices == {0, 1, 2}

\* torch.log(probs) of a row of positive probabilities.
LogRow(p) == [v \in Vocab |-> Ln(p[v], Unit)]
LogRows(probs) == [i \in DOMAIN probs |-> LogRow(probs[i])]

\* ------------------------------------------------------------- state
VARIABLES
    ls_call,    \* arguments of the label_smoothed_nll_loss call under study
    ls_ret,     \* its outcome: pending, returned (loss, nll_loss) or raised
    kd_call,    \* inputs of the criterion step under study (see KDInputs)
    kd_ret,     \* what the step returned and the locals it computed
    config,     \* what the run's configuration asks of the criterion
    self_eps,        \* self.eps
    self_distil_strategy,    \* self.distil_strategy
    self_num,        \* self.num
    self_teacher_model,      \* self.teacher_model: "None" or "loaded"
    self_retriever_results,  \* self.retriever.results (<<>> before a retrieval)
    fw_sample,  \* the sample of the last forward call
    fw_ret,     \* what the last forward call computed and returned
    args,       \* the arguments an AdaptiveKNNMT model is built from
    model_phase,    \* "args", "decoder_built" or "constructed"
    decoder,    \* the AdaptiveKNNMTDecoder's knn-related attributes
    requires_grad,  \* requires_grad of every parameter of the model
    grad_before,    \* requires_grad when AdaptiveKNNMT.__init__ was entered
    rec_self,   \* the record_topk_predictions criterion: eps, topk, ...
    rec_fs,     \* the result directory and the lines of its three files
    rec_hist,   \* history: tokens given to forward, files before the call
    rec_ret,    \* outcome of the last record_topk_predictions forward
    fw_hist,    \* history of the criterion: teacher loads, completed calls
    global_vars,    \* knnbox global_vars(): the process-wide variable store
    datastores, \* the Datastore instances of the process, by identity
    decoders,   \* the AdaptiveKNNMTDecoder instances constructed so far
    net_outputs,    \* the net_outputs the decoders' forward calls returned
    dec_call,   \* the last decoder call and what it did or returned
    self_queue, \* self.queue
    self_teacher_loss_queue,    \* self.teacher_loss_queue
    queue_hist  \* history of the queues: the last push, elements inserted

lsVars == <<ls_call, ls_ret>>
kdVars == <<kd_call, kd_ret>>
critVars == <<config, self_eps, self_distil_strategy, self_num,
              self_teacher_model, self_retriever_results, fw_sample, fw_ret,
              fw_hist>>
knnVars == <<args, model_phase, decoder, requires_grad, grad_before>>
recVars == <<rec_self, rec_fs, rec_hist, rec_ret>>
procVars == <<global_vars, datastores, decoders, net_outputs, dec_call>>
queueVars == <<self_queue, self_teacher_loss_queue, queue_hist>>
vars == <<ls_call, ls_ret, kd_call, kd_ret, config, self_eps,
          self_distil_strategy, self_num, self_teacher_model,
          self_retriever_results, fw_sample, fw_ret,
          args, model_phase, decoder, requires_grad, grad_before,
          rec_self, rec_fs, rec_hist, rec_ret, fw_hist,
          global_vars, datastores, decoders, net_outputs, dec_call,
          self_queue, self_teacher_loss_queue, queue_hist>>

Pending == [status |-> "pending"]
Idle == [status |-> "idle"]

\* ------------------------------------- label_smoothed_nll_loss (both)
\* nll_loss = -lprobs.gather(dim=-1, index=target), then masked_fill_ of
\* the rows whose target is ignore_index.  ignore is {} for None.
NllRows(lprobs, target, ignore) ==
    [i \in DOMAIN target |->
        IF target[i] \in ignore THEN 0 ELSE 0 - lprobs[i][target[i]]]

\* smooth_loss = -lprobs.sum(dim=-1, keepdim=True), same masking.
SmoothRows(lprobs, target, ignore) ==
    [i \in DOMAIN target |->
        IF target[i] \in ignore THEN 0 ELSE 0 - SumVocab(lprobs[i])]

\* if reduce: x = x.sum()
Reduce(rows, reduce) == IF reduce THEN SumTo(rows, Len(rows)) ELSE rows

\* a * x + b * y on a reduced scalar or elementwise on unreduced rows.
Lin(a, x, b, y, reduce) ==
    IF reduce THEN a * x + b * y
    ELSE [i \in DOMAIN x |-> a * x[i] + b * y[i]]

\* x + c with the scalar c broadcast over unreduced rows.
AddScalar(x, c, reduce) ==
    IF reduce THEN x + c ELSE [i \in DOMAIN x |-> x[i] + c]

\* docs/label_smoothed_cross_entropy-step2.py:
\*   eps_i = epsilon / lprobs.size(-1)
\*   loss = (1. - epsilon) * nll_loss + eps_i * smooth_loss
\* Both results are numerators over LossDen.
label_smoothed_nll_loss(lprobs, target, epsilon, ignore, reduce) ==
    LET nll_loss == Reduce(NllRows(lprobs, target, ignore), reduce)
        smooth_loss == Reduce(SmoothRows(lprobs, target, ignore), reduce)
    IN  [loss |-> Lin((EpsDen - epsilon) * V * BlendUnit, nll_loss,
                      epsilon * BlendUnit, smooth_loss, reduce),
         nll_loss |-> Lin(LossDen, nll_loss, 0, nll_loss, reduce)]

\* math.log(x): ValueError (math domain error) unless x > 0.
MathLogDefined(num) == num > 0

\* docs/kd/criterions/record_topk_predictions.py:
\*   eps_i = epsilon / (lprobs.size(-1) - 1)
\*   loss = (1.0 - epsilon - eps_i) * nll_loss + eps_i * smooth_loss
\*   loss = loss + ((1 - epsilon) * math.log(1 - epsilon)
\*                  + eps_i * math.log(eps_i) * (lprobs.size(-1) - 1))
\* Both results are numerators over RecDen; the call raises when either
\* math.log is applied to a number that is not positive.
record_label_smoothed_nll_loss(lprobs, target, epsilon, ignore, reduce) ==
    LET nll_loss == Reduce(NllRows(lprobs, target, ignore), reduce)
        smooth_loss == Reduce(SmoothRows(lprobs, target, ignore), reduce)
        mixed == Lin(EpsDen * (V - 1) - epsilon * (V - 1) - epsilon, nll_loss,
                     epsilon, smooth_loss, reduce)
    IN  IF ~(MathLogDefined(EpsDen - epsilon) /\ MathLogDefined(epsilon))
        THEN [status |-> "raised", error |-> "ValueError"]
        ELSE LET shift ==
                   (EpsDen - epsilon) * (V - 1)
                        * Ln(EpsDen - epsilon, EpsDen)
                   + epsilon * (V - 1)
                        * Ln(epsilon, EpsDen * (V - 1))
             IN  [status |-> "returned",
                  loss |-> AddScalar(mixed, shift, reduce),
                  nll_loss |-> Lin(RecDen, nll_loss, 0, nll_loss, reduce)]

\* The two functions behind one call interface; fn names the file.
CallLabelSmoothed(c) ==
    IF c.fn = "step2"
    THEN LET r == label_smoothed_nll_loss(c.lprobs, c.target, c.epsilon,
                                          c.ignore, c.reduce)
         IN  [status |-> "returned", loss |-> r.loss, nll_loss |-> r.nll_loss]
    ELSE record_label_smoothed_nll_loss(c.lprobs, c.target, c.epsilon,
                                        c.ignore, c.reduce)

\* The criterion object when the specification is not about it.
CritIdle ==
    /\ config = Idle /\ self_eps = 0 /\ self_distil_strategy = "direct"
    /\ self_num = 0
    /\ self_teacher_model = "None" /\ self_retriever_results = <<>>
    /\ fw_sample = <<>> /\ fw_ret = Idle /\ fw_hist = Idle

\* The kNN-MT model when the specification is not about it.
KnnIdle ==
    /\ args = Idle /\ model_phase = "idle" /\ decoder = Idle
    /\ requires_grad = <<>> /\ grad_before = <<>>

\* The decoders of the process when the specification is not about them.
ProcIdle ==
    /\ global_vars = Idle /\ datastores = <<>> /\ decoders = <<>>
    /\ net_outputs = {} /\ dec_call = Idle

\* The criterion's queues when the specification is not about them.
QueueIdle ==
    /\ self_queue = <<>> /\ self_teacher_loss_queue = <<>>
    /\ queue_hist = Idle

\* The top-k dump criterion when the specification is not about it.
RecIdle ==
    /\ rec_self = Idle /\ rec_fs = Idle /\ rec_hist = Idle /\ rec_ret = Idle

\* ------------------- specification of the label-smoothing functions
LSInputs ==
    [fn : {"step2", "record_topk"},
     lprobs : {LogRows(p) : p \in [Pos -> SoftmaxRows]},
     target : [Pos -> Targets],
     epsilon : EpsChoices,
     ignore : {{}, {padding_idx}},
     reduce : BOOLEAN]

InitLS ==
    /\ ls_call \in LSInputs /\ ls_ret = Pending
    /\ kd_call = Idle /\ kd_ret = Idle
    /\ CritIdle /\ KnnIdle /\ RecIdle /\ ProcIdle /\ QueueIdle

\* One call of label_smoothed_nll_loss on the drawn arguments.
ApplyLabelSmoothed ==
    /\ ls_ret = Pending
    /\ ls_ret' = CallLabelSmoothed(ls_call)
    /\ UNCHANGED <<ls_call, kdVars, critVars, knnVars, recVars, procVars,
                 queueVars>>

NextLS == ApplyLabelSmoothed

SpecLS == InitLS /\ [][NextLS]_vars

\* C1 (as claimed): with epsilon = 0 every call of either
\* label_smoothed_nll_loss returns, and its loss equals its nll_loss.
C1_EpsilonZeroIsNll ==
    (ls_ret.status # "pending" /\ ls_call.epsilon = 0) =>
        /\ ls_ret.status = "returned"
        /\ ls_ret.loss = ls_ret.nll_loss

\* ------------------------------------ distillation criterion: losses
\* teacher_output as compute_loss receives it: None, or the teacher's
\* decoder output, carried here as its softmax rows.
NoTeacherOutput == [given |-> FALSE]
TeacherOutput(rows) == [given |-> TRUE, probs |-> rows]

\* pad_mask = target.eq(self.padding_idx).view(-1)
PadMask(target) == [i \in DOMAIN target |-> target[i] = padding_idx]

\* F.kl_div(lprobs, q, reduction='none').sum(dim=-1) for one row:
\* sum over v of q[v] * (log q[v] - lprobs[v]), an entry with q[v] = 0
\* contributing 0.  q is over qUnit; the result is a numerator over
\* LossDen, obtained by the exact factor LossDen / qUnit.
KLRow(lprob, q, qUnit) ==
    SumVocab([v \in Vocab |->
        IF q[v] = 0 THEN 0
        ELSE q[v] * (Ln(q[v], qUnit) - lprob[v]) * (LossDen \div qUnit)])

\* KLMaskedSum without the masked_fill_ of the padding rows.
KLUnmaskedSum(lprobs, q, qUnit, pad_mask) ==
    SumTo([i \in DOMAIN lprobs |-> KLRow(lprobs[i], q[i], qUnit)], MaxTokens)

\* KL_loss = F.kl_div(...).sum(dim=-1); KL_loss.masked_fill_(pad_mask, 0.);
\* KL_loss = KL_loss.sum()
KLMaskedSum(lprobs, q, qUnit, pad_mask) ==
    SumTo([i \in DOMAIN lprobs |->
              IF pad_mask[i] THEN 0 ELSE KLRow(lprobs[i], q[i], qUnit)],
          MaxTokens)

\* get_teacher_probs_direct: self.teacher_model.get_normalized_probs(
\* teacher_output, log_probs=False).view(-1, V); rows over Unit.
get_teacher_probs_direct(teacher_output) == teacher_output.probs

\* self.combiner.get_knn_prob(**self.retriever.results): the distribution
\* the retrieved neighbours induce on the vocabulary; rows over Unit.
get_knn_prob(results) == results

\* self.combiner.get_combined_prob(knn_prob, logits, log_probs=False):
\* lambda * knn_prob + (1 - lambda) * softmax(logits); rows over CombUnit.
get_combined_prob(knn_prob, nmt_prob) ==
    [i \in DOMAIN knn_prob |->
        [v \in Vocab |-> KnnLambdaNum * knn_prob[i][v]
                         + (LambdaDen - KnnLambdaNum) * nmt_prob[i][v]]]

\* get_teacher_probs: the combined distribution of the retrieval results
\* and teacher_output[0] / self.prior_tau (prior_tau = 1.0).
get_teacher_probs(results, teacher_output) ==
    get_combined_prob(get_knn_prob(results), teacher_output.probs)

\* knn_target_values = kNN_prob.gather(1, target)
\* knn_max_values, _ = kNN_prob.max(dim=1, keepdim=True)
\* mask = (knn_target_values >= knn_max_values).float()
AdapterMask(kNN_prob, target) ==
    [i \in DOMAIN target |->
        IF kNN_prob[i][target[i]] >= MaxVocab(kNN_prob[i]) THEN 1 ELSE 0]

\* knn_prob = 0.5 * kNN_prob * mask: the coefficient of kNN_prob, in halves.
KnnBlendWeight(m) == m
\* nmt_prob = nmt_prob * (1 - 0.5 * mask): its coefficient, in halves.
NmtBlendWeight(m) == 2 - m

\* BlendRows selecting kNN_prob alone where the mask is 1.
BlendRowsSelect(kNN_prob, nmt_prob, mask) ==
    [i \in DOMAIN mask |->
        [v \in Vocab |-> IF mask[i] = 1 THEN 2 * kNN_prob[i][v]
                         ELSE 2 * LambdaDen * nmt_prob[i][v]]]

\* distil_lprobs = knn_prob + nmt_prob; rows over BlendUnit.
BlendRows(kNN_prob, nmt_prob, mask) ==
    [i \in DOMAIN mask |->
        [v \in Vocab |-> KnnBlendWeight(mask[i]) * kNN_prob[i][v]
                         + NmtBlendWeight(mask[i]) * LambdaDen * nmt_prob[i][v]]]

NoExtra == [k \in {} |-> 0]

\* DirectLoss keeping the gold cross-entropy in the returned loss.
DirectLossWithGold(golden_loss, KL_loss, reduce) ==
    AddScalar(golden_loss, KL_loss, reduce)

\* direct, line 205: loss = KL_loss (golden_loss is dropped).
DirectLoss(golden_loss, KL_loss, reduce) == KL_loss

\* AdapterDirectLoss with weight 1.0 on the KL term.
AdapterDirectLossUnitWeight(golden_loss, KL_loss, reduce) ==
    AddScalar(golden_loss, KL_loss, reduce)

\* adapter_direct, line 235: loss = golden_loss + 2.0 * KL_loss.
AdapterDirectLoss(golden_loss, KL_loss, reduce) ==
    AddScalar(golden_loss, 2 * KL_loss, reduce)

\* compute_loss of LabelSmoothedCrossEntropyCriterionAdapter.  probs is
\* model.get_normalized_probs(net_output, log_probs=False) viewed as rows;
\* results is self.retriever.results.  Returns loss, nll_loss and
\* extra_result, with the branch taken and the locals mask, distil_lprobs.
compute_loss(probs, target, eps, reduce, teacher_output, distil_strategy, results) ==
    LET lprobs == LogRows(probs)
        pad_mask == PadMask(target)
        golden == label_smoothed_nll_loss(lprobs, target, eps,
                                          {padding_idx}, reduce)
    IN  IF distil_strategy = "normal" \/ ~teacher_output.given
        THEN [branch |-> "normal", loss |-> golden.loss,
              nll_loss |-> golden.nll_loss, extra_result |-> NoExtra,
              mask |-> <<>>, distil_lprobs |-> <<>>]
        ELSE IF distil_strategy = "direct"
        THEN LET nmt_prob == get_teacher_probs_direct(teacher_output)
                 KL_loss == KLMaskedSum(lprobs, nmt_prob, Unit, pad_mask)
             IN  [branch |-> "direct",
                  loss |-> DirectLoss(golden.loss, KL_loss, reduce),
                  nll_loss |-> golden.nll_loss,
                  extra_result |-> [k \in {"KD_loss"} |-> KL_loss],
                  mask |-> <<>>, distil_lprobs |-> <<>>]
        ELSE IF distil_strategy = "adapter_direct"
        THEN LET nmt_prob == get_teacher_probs_direct(teacher_output)
                 kNN_prob == get_teacher_probs(results, teacher_output)
                 mask == AdapterMask(kNN_prob, target)
                 distil_lprobs == BlendRows(kNN_prob, nmt_prob, mask)
                 KL_loss == KLMaskedSum(lprobs, distil_lprobs, BlendUnit,
                                        pad_mask)
             IN  [branch |-> "adapter_direct",
                  loss |-> AdapterDirectLoss(golden.loss, KL_loss, reduce),
                  nll_loss |-> golden.nll_loss,
                  extra_result |-> [k \in {"KD_loss"} |-> KL_loss],
                  mask |-> mask, distil_lprobs |-> distil_lprobs]
        ELSE [branch |-> "none", loss |-> "None", nll_loss |-> "None",
              extra_result |-> NoExtra, mask |-> <<>>, distil_lprobs |-> <<>>]

\* RunsTeacher without the test of the strategy.
RunsTeacherAnyStrategy(teacher_loaded, distil_strategy) == teacher_loaded

\* forward, line 111: the teacher is run and a retrieval made exactly when
\* a teacher model is loaded and the strategy is not 'normal'.
RunsTeacher(teacher_loaded, distil_strategy) ==
    teacher_loaded /\ distil_strategy # "normal"

\* forward, lines 109-120: the step after the teacher is loaded, for the
\* criterion's distil_strategy.  teacher and knn are what the teacher model
\* and the retrieval yield for this sample; stale is retriever.results
\* before the step.
ForwardStep(probs, target, eps, reduce, teacher_loaded, distil_strategy, teacher, knn, stale) ==
    LET runs == RunsTeacher(teacher_loaded, distil_strategy)
        teacher_output == IF runs THEN TeacherOutput(teacher)
                          ELSE NoTeacherOutput
        results == IF runs THEN knn ELSE stale
        r == compute_loss(probs, target, eps, reduce, teacher_output,
                          distil_strategy, results)
    IN  [out |-> r, teacher_ran |-> runs, retrieved |-> runs,
         results |-> results]

\* --------------------------- specification of the criterion's step
\* What one target position carries: the student's distribution, the gold
\* target, the teacher's distribution and the kNN distribution retrieved.
TokenCases ==
    [probs : SoftmaxRows, target : Targets,
     tk : {<<Peak(GoldTok), OneHot(GoldTok)>>,
           <<Peak(GoldTok), Tie(GoldTok, OtherTok)>>,
           <<Peak(OtherTok), Tie(GoldTok, OtherTok)>>,
           <<Peak(OtherTok), OneHot(OtherTok)>>}]

Samples == [Pos -> TokenCases]

ProbsOf(sample) == [i \in Pos |-> sample[i].probs]
TargetOf(sample) == [i \in Pos |-> sample[i].target]
TeacherOf(sample) == [i \in Pos |-> sample[i].tk[1]]
KnnOf(sample) == [i \in Pos |-> sample[i].tk[2]]

DistilStrategies == {"normal", "direct", "adapter_direct"}
KDEps == {0, 1}

\* via = "forward": the step of forward for a criterion whose
\* distil_strategy is the drawn one; via = "compute_loss": a call of
\* compute_loss with the drawn distil_strategy and teacher_output.
KDInputs ==
    [via : {"forward"}, sample : Samples, eps : KDEps,
     distil_strategy : DistilStrategies, teacher_given : {TRUE}]
    \cup
    [via : {"compute_loss"}, sample : Samples, eps : KDEps,
     distil_strategy : DistilStrategies, teacher_given : BOOLEAN]

InitLoss ==
    /\ kd_call \in KDInputs /\ kd_ret = Pending
    /\ ls_call = Idle /\ ls_ret = Idle
    /\ CritIdle /\ KnnIdle /\ RecIdle /\ ProcIdle /\ QueueIdle

\* forward's step (lines 109-120) on the drawn sample.
StepForward ==
    /\ kd_ret = Pending
    /\ kd_call.via = "forward"
    /\ LET s == kd_call.sample
           f == ForwardStep(ProbsOf(s), TargetOf(s), kd_call.eps, TRUE, TRUE,
                            kd_call.distil_strategy, TeacherOf(s), KnnOf(s),
                            KnnOf(s))
       IN  kd_ret' = [status |-> "returned", out |-> f.out,
                      teacher_ran |-> f.teacher_ran,
                      retrieved |-> f.retrieved]
    /\ UNCHANGED <<kd_call, lsVars, critVars, knnVars, recVars, procVars,
                 queueVars>>

\* A call of compute_loss with explicit arguments.
CallComputeLoss ==
    /\ kd_ret = Pending
    /\ kd_call.via = "compute_loss"
    /\ LET s == kd_call.sample
           t == IF kd_call.teacher_given THEN TeacherOutput(TeacherOf(s))
                ELSE NoTeacherOutput
       IN  kd_ret' = [status |-> "returned",
                      out |-> compute_loss(ProbsOf(s), TargetOf(s),
                                           kd_call.eps, TRUE, t,
                                           kd_call.distil_strategy, KnnOf(s)),
                      teacher_ran |-> FALSE, retrieved |-> FALSE]
    /\ UNCHANGED <<kd_call, lsVars, critVars, knnVars, recVars, procVars,
                 queueVars>>

NextLoss == StepForward \/ CallComputeLoss

SpecLoss == InitLoss /\ [][NextLoss]_vars

\* ------------------------------------- statements about the step
RECURSIVE SetSum(_, _)
\* Sum of f[x] over the finite set S.
SetSum(S, f) ==
    IF S = {} THEN 0
    ELSE LET x == CHOOSE y \in S : TRUE IN f[x] + SetSum(S \ {x}, f)

KdReturned == kd_ret.status = "returned"
KdSample == kd_call.sample
\* The positions of the sample whose target is not padding.
NonPadPos(sample) == {i \in Pos : sample[i].target # padding_idx}
\* Whether the drawn step hands compute_loss a teacher output.
TeacherPresent == kd_call.via = "forward" \/ kd_call.teacher_given

\* -ln of the probability the student gives the gold token, per position,
\* in hundredths of a nat.
GoldNll(sample) ==
    [i \in Pos |-> 0 - Ln(sample[i].probs[sample[i].target], Unit)]

\* -ln of the student's probabilities summed over the vocabulary.
UniformNll(sample) ==
    [i \in Pos |-> SetSum(Vocab, [v \in Vocab |->
                                     0 - Ln(sample[i].probs[v], Unit)])]

\* Label-smoothed cross-entropy against the gold targets, summed over the
\* non-padding positions: (1 - eps) * nll + (eps / V) * uniform, as a
\* numerator over LossDen.
GoldCrossEntropy(sample, eps) ==
    SetSum(NonPadPos(sample),
           [i \in Pos |-> ((EpsDen - eps) * V * GoldNll(sample)[i]
                           + eps * UniformNll(sample)[i]) * BlendUnit])

\* KL(q || student) at position i for a target row q over qUnit, as a
\* numerator over LossDen.
ClaimKL(sample, i, q, qUnit) ==
    SetSum({v \in Vocab : q[v] > 0},
           [v \in Vocab |->
               q[v] * (Ln(q[v], qUnit) - Ln(sample[i].probs[v], Unit))
                    * V * EpsDen * (BlendUnit \div qUnit)])

\* The KL term summed over the non-padding positions only.
ClaimKLSum(sample, rows, qUnit) ==
    SetSum(NonPadPos(sample),
           [i \in Pos |-> ClaimKL(sample, i, rows[i], qUnit)])

\* The step repeated on another sample or another epsilon.
Rerun(sample, eps) ==
    IF kd_call.via = "forward"
    THEN ForwardStep(ProbsOf(sample), TargetOf(sample), eps, TRUE, TRUE,
                     kd_call.distil_strategy, TeacherOf(sample),
                     KnnOf(sample), KnnOf(sample)).out
    ELSE compute_loss(ProbsOf(sample), TargetOf(sample), eps, TRUE,
                      IF kd_call.teacher_given
                      THEN TeacherOutput(TeacherOf(sample))
                      ELSE NoTeacherOutput,
                      kd_call.distil_strategy, KnnOf(sample))

\* The samples that differ from sample only in the student's
\* (log-)probabilities at padding positions.
PadVariants(sample) ==
    {[i \in Pos |-> IF sample[i].target = padding_idx
                    THEN [sample[i] EXCEPT !.probs = q[i]]
                    ELSE sample[i]] : q \in [Pos -> SoftmaxRows]}

\* C2: padding positions contribute zero to the summed loss: the returned
\* loss (label-smoothed loss with ignore_index set and reduce=True, or the
\* summed KL term under direct and adapter_direct) and KD_loss are the same
\* for any two samples that differ only in the log-probabilities at padding
\* positions.
C2_PaddingContributesZero ==
    KdReturned =>
        \A alt \in PadVariants(KdSample) :
            LET r == Rerun(alt, kd_call.eps)
            IN  /\ r.loss = kd_ret.out.loss
                /\ r.nll_loss = kd_ret.out.nll_loss
                /\ r.extra_result = kd_ret.out.extra_result

\* C2 witness: a KL strategy ran on a sample with a padding position, a
\* non-padding position and a variant with other log-probabilities at the
\* padding position.
C2_Witness ==
    /\ KdReturned
    /\ kd_ret.out.branch = "adapter_direct"
    /\ NonPadPos(KdSample) # {} /\ NonPadPos(KdSample) # Pos
    /\ \E alt \in PadVariants(KdSample) : alt # KdSample
    /\ kd_ret.out.extra_result["KD_loss"] # 0

\* C4: under the normal strategy, and whenever compute_loss receives no
\* teacher output, the returned loss is the label-smoothed cross-entropy
\* against the gold targets, extra_result has no KD_loss entry, and the
\* forward step neither runs the teacher nor retrieves.
C4_NormalIsGoldCrossEntropy ==
    (KdReturned /\ (kd_call.distil_strategy = "normal" \/ ~TeacherPresent)) =>
        /\ kd_ret.out.loss = GoldCrossEntropy(KdSample, kd_call.eps)
        /\ "KD_loss" \notin DOMAIN kd_ret.out.extra_result
        /\ ~kd_ret.teacher_ran
        /\ ~kd_ret.retrieved

\* C4 witness: forward's step ran under the normal strategy on a sample
\* with a gold (non-padding) token.
C4_Witness ==
    /\ KdReturned
    /\ kd_call.via = "forward"
    /\ kd_call.distil_strategy = "normal"
    /\ NonPadPos(KdSample) # {}
    /\ kd_ret.out.loss > 0

\* C5: under direct with a teacher output, the returned loss is the KL term
\* between student and teacher summed over the non-padding tokens, it is
\* the same for every label-smoothing epsilon, and nll_loss is the gold
\* negative log-likelihood.
C5_DirectIsPureKL ==
    (KdReturned /\ kd_call.distil_strategy = "direct" /\ TeacherPresent) =>
        /\ kd_ret.out.loss
             = ClaimKLSum(KdSample, TeacherOf(KdSample), Unit)
        /\ \A e \in EpsChoices : Rerun(KdSample, e).loss = kd_ret.out.loss
        /\ kd_ret.out.nll_loss
             = SetSum(NonPadPos(KdSample),
                      [i \in Pos |-> LossDen * GoldNll(KdSample)[i]])

\* C5 witness: the direct branch ran on a sample with a padding and a
\* non-padding token whose gold cross-entropy depends on epsilon.
C5_Witness ==
    /\ KdReturned
    /\ kd_ret.out.branch = "direct"
    /\ NonPadPos(KdSample) # {} /\ NonPadPos(KdSample) # Pos
    /\ GoldCrossEntropy(KdSample, 0) # GoldCrossEntropy(KdSample, 1)
    /\ kd_ret.out.loss > 0

\* C6: under adapter_direct with a teacher output, the returned loss is the
\* gold label-smoothed cross-entropy plus 2.0 times the KL term between the
\* student and the blended distillation target, summed over the non-padding
\* tokens.
C6_AdapterDirectIsGoldPlusTwoKL ==
    (KdReturned /\ kd_call.distil_strategy = "adapter_direct"
                /\ TeacherPresent) =>
        kd_ret.out.loss
          = GoldCrossEntropy(KdSample, kd_call.eps)
            + 2 * ClaimKLSum(KdSample, kd_ret.out.distil_lprobs, BlendUnit)

\* C6 witness: the adapter_direct branch ran with label smoothing on, on a
\* sample with a padding token and a non-padding token of mask 1, and the
\* KL term is not zero.
C6_Witness ==
    /\ KdReturned
    /\ kd_ret.out.branch = "adapter_direct"
    /\ kd_call.eps > 0
    /\ NonPadPos(KdSample) # Pos
    /\ \E i \in NonPadPos(KdSample) : kd_ret.out.mask[i] = 1
    /\ kd_ret.out.extra_result["KD_loss"] # 0

\* C7 (as claimed): under adapter_direct the mask of a token is 1 exactly
\* when the kNN distribution of the retrieved neighbours gives the gold
\* token that distribution's row maximum, and 0 otherwise.
C7_MaskIffKnnGoldIsRowMax ==
    (KdReturned /\ kd_ret.out.branch = "adapter_direct") =>
        \A i \in Pos :
            /\ kd_ret.out.mask[i] \in {0, 1}
            /\ kd_ret.out.mask[i] = 1
                 <=> KnnOf(KdSample)[i][KdSample[i].target]
                       = MaxVocab(KnnOf(KdSample)[i])

\* The rows get_teacher_probs returns and the teacher's direct rows, both
\* over BlendUnit.
RetrievalDerived(sample) ==
    [i \in Pos |-> [v \in Vocab |->
        2 * (KnnLambdaNum * KnnOf(sample)[i][v]
             + (LambdaDen - KnnLambdaNum) * TeacherOf(sample)[i][v])]]
TeacherDirect(sample) ==
    [i \in Pos |-> [v \in Vocab |-> 2 * LambdaDen * TeacherOf(sample)[i][v]]]

Dist(a, b) == IF a >= b THEN a - b ELSE b - a

\* C8 (as claimed): in the blended target the retrieval-derived
\* distribution weighs strictly more than the teacher's direct distribution
\* where the mask is 1, and the teacher's strictly more where it is 0: the
\* target lies strictly nearer the dominating distribution wherever the two
\* differ.
C8_MaskedSourceDominates ==
    (KdReturned /\ kd_ret.out.branch = "adapter_direct") =>
        \A i \in Pos : \A v \in Vocab :
            LET d == kd_ret.out.distil_lprobs[i][v]
                r == RetrievalDerived(KdSample)[i][v]
                t == TeacherDirect(KdSample)[i][v]
            IN  r # t =>
                    IF kd_ret.out.mask[i] = 1
                    THEN Dist(d, r) < Dist(d, t)
                    ELSE Dist(d, t) < Dist(d, r)

\* C8 (amended): where the mask is 1 the target is the equal-weight
\* (0.5 / 0.5) blend of the retrieval-derived distribution and the teacher's
\* direct distribution; where it is 0 the target is the teacher's direct
\* distribution alone.
C8_EqualBlendOrTeacherAlone ==
    (KdReturned /\ kd_ret.out.branch = "adapter_direct") =>
        \A i \in Pos : \A v \in Vocab :
            LET d == kd_ret.out.distil_lprobs[i][v]
                r == RetrievalDerived(KdSample)[i][v]
                t == TeacherDirect(KdSample)[i][v]
            IN  IF kd_ret.out.mask[i] = 1 THEN 2 * d = r + t ELSE d = t

\* C8 witness: adapter_direct ran on a sample with a token of mask 1 whose
\* two source distributions differ, and a token of mask 0.
C8_Witness ==
    /\ KdReturned
    /\ kd_ret.out.branch = "adapter_direct"
    /\ \E i \in Pos :
          /\ kd_ret.out.mask[i] = 1
          /\ RetrievalDerived(KdSample)[i] # TeacherDirect(KdSample)[i]
    /\ \E i \in Pos : kd_ret.out.mask[i] = 0

\* ------------------------------ the criterion object over its calls
\* Number of forward calls explored.
MaxForwards == 2

\* The command line of a run: --label-smoothing, and the distillation
\* strategy the run is meant to use.
Configs == [label_smoothing : KDEps, distil_strategy : DistilStrategies]

\* __init__(task, sentence_avg, label_smoothing): self.eps is the
\* label_smoothing argument; self.num = 0, self.teacher_model = None and
\* self.distil_strategy = 'direct' are literals (add_args registers
\* --label-smoothing only).
InitKD ==
    /\ config \in Configs
    /\ self_eps = config.label_smoothing
    /\ self_distil_strategy = "direct"
    /\ self_num = 0
    /\ self_teacher_model = "None"
    /\ self_retriever_results = <<>>
    /\ fw_sample = <<>>
    /\ fw_ret = Pending
    /\ fw_hist = [loads |-> 0, completed |-> 0]
    /\ ls_call = Idle /\ ls_ret = Idle /\ kd_call = Idle /\ kd_ret = Idle
    /\ KnnIdle /\ RecIdle /\ ProcIdle /\ QueueIdle

\* LoadsTeacher on every call, whatever self.num is.
LoadsTeacherEveryCall(num) == num >= 0

\* if self.num == 0: load_model_ensemble(...) (line 100).
LoadsTeacher(num) == num = 0

\* forward(model, sample): loads the teacher when self.num == 0, counts the
\* call, runs the student, then the teacher and the retrieval unless the
\* strategy is 'normal', and computes the loss with self.distil_strategy.
Forward(sample) ==
    /\ self_num < MaxForwards
    /\ LET loaded == IF LoadsTeacher(self_num) THEN "loaded"
                     ELSE self_teacher_model
           f == ForwardStep(ProbsOf(sample), TargetOf(sample), self_eps, TRUE,
                            loaded # "None", self_distil_strategy,
                            TeacherOf(sample), KnnOf(sample),
                            self_retriever_results)
       IN  /\ self_teacher_model' = loaded
           /\ self_num' = self_num + 1
           /\ fw_hist' = [loads |-> IF LoadsTeacher(self_num)
                                    THEN fw_hist.loads + 1
                                    ELSE fw_hist.loads,
                          completed |-> fw_hist.completed + 1]
           /\ self_retriever_results' = f.results
           /\ fw_sample' = sample
           /\ fw_ret' = [status |-> "returned",
                         loaded_teacher |-> LoadsTeacher(self_num),
                         teacher_ran |-> f.teacher_ran,
                         retrieved |-> f.retrieved,
                         branch |-> f.out.branch,
                         loss |-> f.out.loss,
                         nll_loss |-> f.out.nll_loss,
                         KD_loss |-> IF "KD_loss" \in DOMAIN f.out.extra_result
                                     THEN f.out.extra_result["KD_loss"]
                                     ELSE 0]
    /\ UNCHANGED <<config, self_eps, self_distil_strategy, lsVars, kdVars,
                   knnVars, recVars, procVars,
                 queueVars>>

\* The samples forward is called on: one drawn token case at the first
\* position, the same case turned into padding at the others.
ForwardSamples ==
    {[i \in Pos |-> IF i = 1 THEN c ELSE [c EXCEPT !.target = padding_idx]] :
        c \in TokenCases}

NextKD == \E sample \in ForwardSamples : Forward(sample)

SpecKD == InitKD /\ [][NextKD]_vars

\* C3 (as claimed): the strategy forward uses is the one the configuration
\* selects: the loss of every forward call is computed through the branch of
\* compute_loss named by the configured strategy.
C3_ForwardUsesConfiguredStrategy ==
    fw_ret.status = "returned" => fw_ret.branch = config.distil_strategy

\* -------------------------------------------- adaptive kNN-MT model
\* --knn-mode choices.
KnnModes == {"build_datastore", "train_metak", "inference"}
\* --knn-k-type / --knn-lambda-type / --knn-temperature-type choices.
TypeChoices == {"fixed", "trainable"}

ArgSets ==
    [knn_mode : KnnModes, knn_k_type : TypeChoices,
     knn_lambda_type : TypeChoices, knn_temperature_type : TypeChoices]

\* A parameter of the model: the module that owns it and its name.
Param(owner, name) == [owner |-> owner, name |-> name]

\* Parameters of the transformer encoder and decoder (super().__init__).
BaseParams == {Param("encoder", "weight"), Param("decoder", "weight")}

\* The parts of an AdaptiveCombiner that can be learned networks.
CombinerParts == {"k", "lambda", "temperature"}

\* Parameters of a combiner whose learned parts are parts.
CombinerParams(parts) == {Param("combiner", n) : n \in parts}

\* AdaptiveCombiner(k_trainable=..., lambda_trainable=...,
\* temperature_trainable=...): the parts built as learned networks.
TrainableParts(a) ==
    {n \in CombinerParts :
        \/ n = "k" /\ a.knn_k_type = "trainable"
        \/ n = "lambda" /\ a.knn_lambda_type = "trainable"
        \/ n = "temperature" /\ a.knn_temperature_type = "trainable"}

\* disable_model_grad(model): no parameter of the model receives gradient.
disable_model_grad(flags) == [p \in DOMAIN flags |-> FALSE]

\* enable_module_grad(model, module_name): the parameters of the named
\* module receive gradient.
enable_module_grad(flags, module_name) ==
    [p \in DOMAIN flags |-> IF p.owner = module_name THEN TRUE ELSE flags[p]]

\* AdaptiveKNNMT.__init__ applied in every knn_mode.
InitGradEveryMode(knn_mode, flags) ==
    enable_module_grad(disable_model_grad(flags), "combiner")

\* AdaptiveKNNMT.__init__, lines 42-44: what construction does to the
\* parameters' requires_grad.
AdaptiveKNNMT_init(knn_mode, flags) ==
    IF knn_mode = "train_metak"
    THEN enable_module_grad(disable_model_grad(flags), "combiner")
    ELSE flags

InitKNN ==
    /\ args \in ArgSets
    /\ model_phase = "args"
    /\ decoder = Idle
    /\ requires_grad = <<>>
    /\ grad_before = <<>>
    /\ ls_call = Idle /\ ls_ret = Idle /\ kd_call = Idle /\ kd_ret = Idle
    /\ CritIdle /\ RecIdle /\ ProcIdle /\ QueueIdle

\* AdaptiveKNNMTDecoder.__init__ (through build_decoder): no retriever and
\* no combiner in build_datastore mode; a retriever and a new combiner in
\* train_metak mode; a retriever and a loaded combiner in inference mode.
\* The parameters start with the requires_grad their modules gave them.
BuildDecoder ==
    /\ model_phase = "args"
    /\ \E parts \in SUBSET CombinerParts :
         /\ args.knn_mode = "build_datastore" => parts = {}
         /\ args.knn_mode = "train_metak" => parts = TrainableParts(args)
         /\ decoder' = [retriever |-> args.knn_mode # "build_datastore",
                        combiner |-> IF args.knn_mode = "train_metak"
                                     THEN "new"
                                     ELSE IF args.knn_mode = "inference"
                                     THEN "loaded" ELSE "none"]
         /\ requires_grad' \in [BaseParams \cup CombinerParams(parts) -> BOOLEAN]
    /\ model_phase' = "decoder_built"
    /\ UNCHANGED <<args, grad_before, lsVars, kdVars, critVars, recVars, procVars,
                 queueVars>>

\* AdaptiveKNNMT.__init__(args, encoder, decoder).
ConstructModel ==
    /\ model_phase = "decoder_built"
    /\ grad_before' = requires_grad
    /\ requires_grad' = AdaptiveKNNMT_init(args.knn_mode, requires_grad)
    /\ model_phase' = "constructed"
    /\ UNCHANGED <<args, decoder, lsVars, kdVars, critVars, recVars, procVars,
                 queueVars>>

NextKNN == BuildDecoder \/ ConstructModel

SpecKNN == InitKNN /\ [][NextKNN]_vars

\* C9: after construction in train_metak mode a parameter has gradient
\* enabled if and only if it belongs to the combiner; in build_datastore
\* and inference modes construction changes no parameter's flag.
C9_OnlyCombinerTrainsInTrainMetak ==
    model_phase = "constructed" =>
        IF args.knn_mode = "train_metak"
        THEN \A p \in DOMAIN requires_grad :
                requires_grad[p] <=> p.owner = "combiner"
        ELSE requires_grad = grad_before

\* C9 witness: a train_metak model was constructed whose combiner had a
\* frozen parameter and whose encoder had a trainable one before.
C9_Witness ==
    /\ model_phase = "constructed"
    /\ args.knn_mode = "train_metak"
    /\ \E p \in DOMAIN requires_grad :
          p.owner = "combiner" /\ ~grad_before[p] /\ requires_grad[p]
    /\ \E p \in DOMAIN requires_grad :
          p.owner = "encoder" /\ grad_before[p] /\ ~requires_grad[p]

\* -------------------- record_topk_predictions criterion: forward
\* Batch rows and target positions per row of a sample (target.shape).
Bsz == 2
SeqLen == 2

Rows == 1 .. Bsz
Cols == 1 .. SeqLen
FlatPos == 1 .. (Bsz * SeqLen)

\* tensor.view(-1, ...) of a [Bsz, SeqLen] grid: row-major flattening.
Flat(grid) ==
    [n \in FlatPos |-> grid[((n - 1) \div SeqLen) + 1][((n - 1) % SeqLen) + 1]]

\* A row of logits with pairwise distinct values, in units of ln 2.
LogitRow(r) == [v \in Vocab |-> (v + r) % V]
\* The [Bsz, SeqLen, V] logits a decoder with the given seed produces.
LogitGrid(seed) ==
    [i \in Rows |-> [j \in Cols |-> LogitRow(seed + (i - 1) * SeqLen + j)]]

RECURSIVE Pow2(_)
Pow2(n) == IF n = 0 THEN 1 ELSE 2 * Pow2(n - 1)

\* model.get_normalized_probs(net_output, log_probs=True): log-softmax of
\* a row of logits (logits in units of ln 2, so the softmax is rational).
LogSoftmaxRow(logits) ==
    LET e == [v \in Vocab |-> Pow2(logits[v])]
    IN  [v \in Vocab |-> Ln(e[v], SumVocab(e))]

\* Index of the largest logit among the token ids in cand.
ArgMaxIn(logits, cand) ==
    CHOOSE v \in cand : \A u \in cand : logits[u] <= logits[v]

RECURSIVE TopKFrom(_, _, _)
TopKFrom(logits, cand, k) ==
    IF k = 0 THEN <<>>
    ELSE LET v == ArgMaxIn(logits, cand)
         IN  <<v>> \o TopKFrom(logits, cand \ {v}, k - 1)

\* torch.topk(logits, k, dim=-1)[1] of one row: the indices of the k
\* largest logits, largest first.
TopK(logits, k) == TopKFrom(logits, Vocab, k)
\* torch.topk raises unless 0 <= k <= size of the dimension.
TopKDefined(k) == k >= 0 /\ k <= V

RECURSIVE JoinFrom(_, _)
\* ' '.join(map(str, ids)) for the ids from position n on.
JoinFrom(ids, n) ==
    IF n > Len(ids) THEN ""
    ELSE IF n = Len(ids) THEN ToString(ids[n])
    ELSE ToString(ids[n]) \o " " \o JoinFrom(ids, n + 1)

\* tea_line / stu_line: ' '.join(list(map(str, preds.tolist()))) + '\n'
PredsLine(ids) == JoinFrom(ids, 1) \o "\n"
\* gold_line: str(target.item()) + '\n'
GoldLine(id) == ToString(id) \o "\n"

\* File names inside result_path.
TeacherFile(k) == "teacher_top" \o ToString(k) \o "_preds.txt"
StudentFile(k) == "student_top" \o ToString(k) \o "_preds.txt"
GoldFile == "golden_targets.txt"

\* An empty result directory that does not exist yet.
EmptyDir ==
    [dir_exists |-> FALSE, names |-> {},
     teacher |-> <<>>, student |-> <<>>, gold |-> <<>>]

RECURSIVE DumpCols(_, _, _, _, _, _)
\* for j in range(target.shape[1]): the lines row i adds to one file, up
\* to position j; role names the file.
DumpCols(sample, teacher_logits, k, role, i, j) ==
    IF j = 0 THEN <<>>
    ELSE LET before == DumpCols(sample, teacher_logits, k, role, i, j - 1)
             tok == sample.target[i][j]
             line ==
                 IF role = "teacher"
                 THEN PredsLine(TopK(teacher_logits[i][j], k))
                 ELSE IF role = "student"
                 THEN PredsLine(TopK(sample.student_logits[i][j], k))
                 ELSE GoldLine(tok)
         IN  IF tok # padding_idx THEN Append(before, line) ELSE before

RECURSIVE DumpRows(_, _, _, _, _)
\* for i in range(target.shape[0]): the lines rows 1..i add to one file.
DumpRows(sample, teacher_logits, k, role, i) ==
    IF i = 0 THEN <<>>
    ELSE DumpRows(sample, teacher_logits, k, role, i - 1)
         \o DumpCols(sample, teacher_logits, k, role, i, SeqLen)

\* The non-padding token ids targets are made of.
TokAt(n) == IF n % 2 = 0 THEN GoldTok ELSE OtherTok

\* Samples: every row holds SeqLen or SeqLen - 1 target tokens followed by
\* padding (fairseq pads targets on the right); seed selects the batch.
RecSample(lens, seed) ==
    [target |-> [i \in Rows |-> [j \in Cols |->
                    IF j <= lens[i] THEN TokAt(seed + i + j)
                    ELSE padding_idx]],
     student_logits |-> LogitGrid(seed)]

RecLens == [Rows -> {SeqLen - 1, SeqLen}]
\* teacher_model argument of forward: None, or a model whose decoder
\* output on the sample is LogitGrid(seed).
TeacherModels == {"None", "teacher"}
TeacherLogits(seed) == LogitGrid(seed + 1)

\* Configured top-k depths and epsilons (units of 1 / EpsDen; the
\* option's default is 0.0).
TopKChoices == 1 .. (V - 1)
RecEps == {0, 1, 2}

\* compute_loss (lines 190-199): label_smoothed_nll_loss of this file on
\* the flattened log-probabilities and targets, ignore_index = padding_idx.
rec_compute_loss(self, sample, reduce) ==
    record_label_smoothed_nll_loss(
        [n \in FlatPos |-> LogSoftmaxRow(Flat(sample.student_logits)[n])],
        Flat(sample.target), self.eps, {padding_idx}, reduce)

\* Lines 130-147: create the directory when missing, open the three files
\* in append mode and write one line per non-padding target to each.
DumpTopK(fs, sample, teacher_logits, k) ==
    [dir_exists |-> TRUE,
     names |-> fs.names \cup {TeacherFile(k), StudentFile(k), GoldFile},
     teacher |-> fs.teacher
                 \o DumpRows(sample, teacher_logits, k, "teacher", Bsz),
     student |-> fs.student
                 \o DumpRows(sample, teacher_logits, k, "student", Bsz),
     gold |-> fs.gold \o DumpRows(sample, teacher_logits, k, "gold", Bsz)]

\* forward(model, sample, teacher_model, reduce=True), lines 86-176: the
\* file system it leaves and what it returns or raises.
rec_forward(self, fs, sample, teacher_model, teacher_logits) ==
    LET cl == rec_compute_loss(self, sample, TRUE)
    IN  IF cl.status = "raised"
        THEN [fs |-> fs, ret |-> [status |-> "raised", error |-> cl.error]]
        ELSE IF teacher_model # "None" /\ ~TopKDefined(self.topk)
        THEN [fs |-> fs,
              ret |-> [status |-> "raised", error |-> "RuntimeError"]]
        ELSE LET fs2 == IF teacher_model # "None"
                        THEN DumpTopK(fs, sample, teacher_logits, self.topk)
                        ELSE fs
                 loss == IF teacher_model # "None" THEN 0 ELSE cl.loss
             IN  IF self.report_accuracy
                 THEN [fs |-> fs2,
                       ret |-> [status |-> "raised", error |-> "NameError"]]
                 ELSE [fs |-> fs2,
                       ret |-> [status |-> "returned", loss |-> loss,
                                mle_loss |-> cl.loss,
                                nll_loss |-> cl.nll_loss]]

\* The non-padding target tokens of a sample in flattened order, each with
\* the top-k ids of teacher and student at its position.
TokensSeen(sample, teacher_logits, k) ==
    LET all == [n \in FlatPos |->
                   [gold |-> Flat(sample.target)[n],
                    teacher |-> TopK(Flat(teacher_logits)[n], k),
                    student |-> TopK(Flat(sample.student_logits)[n], k)]]
        real(t) == t.gold # padding_idx
    IN  SelectSeq(all, real)

\* ------------------------- specification of record_topk_predictions
RecConfigs ==
    [eps : RecEps, topk : TopKChoices, report_accuracy : BOOLEAN]

InitRec ==
    /\ rec_self \in RecConfigs
    /\ rec_fs = EmptyDir
    /\ rec_hist = [calls |-> 0, seen |-> <<>>, before |-> EmptyDir,
                   target |-> <<>>, student_logits |-> <<>>]
    /\ rec_ret = Pending
    /\ ls_call = Idle /\ ls_ret = Idle /\ kd_call = Idle /\ kd_ret = Idle
    /\ CritIdle /\ KnnIdle /\ ProcIdle /\ QueueIdle

\* One forward call on the next batch; an exception ends the run.
RecForward(lens, teacher_model) ==
    /\ rec_ret.status # "raised"
    /\ rec_hist.calls < MaxForwards
    /\ LET sample == RecSample(lens, rec_hist.calls)
           teacher_logits == TeacherLogits(rec_hist.calls)
           r == rec_forward(rec_self, rec_fs, sample, teacher_model,
                            teacher_logits)
       IN  /\ rec_fs' = r.fs
           /\ rec_ret' = r.ret
           /\ rec_hist' =
                [calls |-> rec_hist.calls + 1,
                 seen |-> IF teacher_model # "None"
                          THEN rec_hist.seen
                               \o TokensSeen(sample, teacher_logits,
                                             rec_self.topk)
                          ELSE rec_hist.seen,
                 before |-> rec_fs,
                 target |-> Flat(sample.target),
                 student_logits |-> Flat(sample.student_logits)]
    /\ UNCHANGED <<rec_self, lsVars, kdVars, critVars, knnVars, procVars,
                   queueVars>>

NextRec == \E lens \in RecLens, tm \in TeacherModels : RecForward(lens, tm)

SpecRec == InitRec /\ [][NextRec]_vars

\* Line n of the three files describes the n-th token of rec_hist.seen,
\* and the files extend what they held before the last call.
IsPrefix(s, t) == Len(s) <= Len(t) /\ SubSeq(t, 1, Len(s)) = s

DumpAligned ==
    /\ Len(rec_fs.teacher) = Len(rec_hist.seen)
    /\ Len(rec_fs.student) = Len(rec_hist.seen)
    /\ Len(rec_fs.gold) = Len(rec_hist.seen)
    /\ \A n \in 1 .. Len(rec_hist.seen) :
          /\ rec_fs.teacher[n] = PredsLine(rec_hist.seen[n].teacher)
          /\ rec_fs.student[n] = PredsLine(rec_hist.seen[n].student)
          /\ rec_fs.gold[n] = GoldLine(rec_hist.seen[n].gold)
    /\ IsPrefix(rec_hist.before.teacher, rec_fs.teacher)
    /\ IsPrefix(rec_hist.before.student, rec_fs.student)
    /\ IsPrefix(rec_hist.before.gold, rec_fs.gold)

\* C10 (as claimed): after any sequence of forward calls with a teacher
\* model, starting from an empty result directory, each of the three
\* files holds exactly one line per non-padding target token the calls
\* were given, in batch-row then position order, line n of all three
\* describing the same token, and earlier lines are never rewritten.
C10_DumpFilesAlignedWithTokensSeen ==
    rec_hist.calls > 0 => DumpAligned

\* With a positive epsilon every forward call reaches the dump, and the
\* alignment holds in every state.
DumpAlignedWhenLossDefined ==
    rec_self.eps > 0 => DumpAligned

\* A state in which two dumps with padding were appended to the files.
DumpedTwiceWithPadding ==
    /\ rec_hist.calls = MaxForwards
    /\ Len(rec_hist.before.gold) > 0
    /\ Len(rec_fs.gold) > Len(rec_hist.before.gold)
    /\ Len(rec_fs.gold) < MaxForwards * Bsz * SeqLen

\* ------------------------ adaptive kNN-MT decoders of one process
\* Number of decoders constructed in the process.
MaxDecoders == 2

\* The batches the decoders are run on, named by number.
Batches == 1 .. MaxForwards

\* The keys a persisted datastore holds and the keys (hidden states) the
\* decoding of a batch produces.
PersistedKeys == <<"persisted">>
KeysOf(batch) == <<batch>>

\* global_vars() before anything was registered.
NoGlobals == [name \in {} |-> 0]

\* Datastore(path): a new, empty Datastore instance.
Datastore_new == [origin |-> "created", keys |-> <<>>]
\* Datastore.load(path, load_list): a new instance restoring the
\* persisted arrays.
Datastore_load == [origin |-> "loaded", keys |-> PersistedKeys]

\* Retriever(datastore=..., k=...): no results before the first retrieval.
Retriever_new(datastore) ==
    [present |-> TRUE, datastore |-> datastore, results |-> <<>>]
\* A decoder without a retriever attribute.
NoRetriever == [present |-> FALSE, datastore |-> 0, results |-> <<>>]

\* retriever.fast_faiss_retrieve_with_hidden(x, ...): searches the index
\* and keeps what it found for the query in retriever.results.
fast_faiss_retrieve_with_hidden(retriever, batch) ==
    [retriever EXCEPT !.results = KeysOf(batch)]

\* Modes in which the decoder retrieves and combines.
KnnActive(knn_mode) == knn_mode = "inference" \/ knn_mode = "train_metak"

\* AdaptiveKNNMTDecoder.__init__, lines 101-110: the datastore the new
\* decoder holds, and what becomes of global_vars() and of the instances.
DatastoreOf(knn_mode, gv, heap) ==
    IF knn_mode = "build_datastore"
    THEN IF "datastore" \notin DOMAIN gv
         THEN [gv |-> ("datastore" :> (Len(heap) + 1)) @@ gv,
               heap |-> Append(heap, Datastore_new), id |-> Len(heap) + 1]
         ELSE [gv |-> gv, heap |-> heap, id |-> gv["datastore"]]
    ELSE [gv |-> gv, heap |-> Append(heap, Datastore_load),
          id |-> Len(heap) + 1]

\* AdaptiveKNNMTDecoder.__init__, lines 94-137: the decoder object.
AdaptiveKNNMTDecoder_init(knn_mode, id) ==
    [knn_mode |-> knn_mode,
     datastore |-> id,
     retriever |-> IF knn_mode = "build_datastore" THEN NoRetriever
                   ELSE Retriever_new(id),
     combiner |-> IF knn_mode = "train_metak" THEN "new"
                  ELSE IF knn_mode = "inference" THEN "loaded"
                  ELSE "None",
     forwards |-> 0,
     retrievals |-> 0]

\* AdaptiveKNNMTDecoder.forward, lines 164-185: `pass` in build_datastore
\* mode, one retrieval in inference and train_metak modes.
decoder_forward(dec, heap, batch) ==
    IF dec.knn_mode = "build_datastore"
    THEN [dec |-> [dec EXCEPT !.forwards = @ + 1], heap |-> heap]
    ELSE IF KnnActive(dec.knn_mode)
    THEN [dec |-> [dec EXCEPT !.forwards = @ + 1,
                   !.retrievals = @ + 1,
                   !.retriever =
                       fast_faiss_retrieve_with_hidden(@, batch)],
          heap |-> heap]
    ELSE [dec |-> [dec EXCEPT !.forwards = @ + 1], heap |-> heap]

\* get_normalized_probs returning the base probabilities in every mode.
get_normalized_probs_base(dec, net_output) ==
    [kind |-> "base", knn_of |-> <<>>, model_of |-> KeysOf(net_output.batch)]

\* AdaptiveKNNMTDecoder.get_normalized_probs, lines 201-206: the
\* combination of the kNN probability of self.retriever.results with
\* net_output[0], or the base decoder's normalized probabilities.
get_normalized_probs(dec, net_output) ==
    IF KnnActive(dec.knn_mode)
    THEN [kind |-> "combined", knn_of |-> dec.retriever.results,
          model_of |-> KeysOf(net_output.batch)]
    ELSE [kind |-> "base", knn_of |-> <<>>,
          model_of |-> KeysOf(net_output.batch)]

InitProc ==
    /\ global_vars = NoGlobals
    /\ datastores = <<>>
    /\ decoders = <<>>
    /\ net_outputs = {}
    /\ dec_call = [op |-> "none"]
    /\ ls_call = Idle /\ ls_ret = Idle /\ kd_call = Idle /\ kd_ret = Idle
    /\ CritIdle /\ KnnIdle /\ RecIdle /\ QueueIdle

\* build_decoder: one more AdaptiveKNNMTDecoder(args, ...) in the process.
NewDecoder(knn_mode) ==
    /\ Len(decoders) < MaxDecoders
    /\ LET ds == DatastoreOf(knn_mode, global_vars, datastores)
       IN  /\ global_vars' = ds.gv
           /\ datastores' = ds.heap
           /\ decoders' =
                Append(decoders, AdaptiveKNNMTDecoder_init(knn_mode, ds.id))
           /\ dec_call' = [op |-> "__init__", dec |-> Len(decoders) + 1]
    /\ UNCHANGED <<net_outputs, lsVars, kdVars, critVars, knnVars, recVars,
                   queueVars>>

\* decoder d's forward on a batch; the net_output it returns is kept.
DecoderForward(d, batch) ==
    /\ d \in DOMAIN decoders
    /\ Cardinality(net_outputs) < MaxForwards
    /\ LET f == decoder_forward(decoders[d], datastores, batch)
       IN  /\ decoders' = [decoders EXCEPT ![d] = f.dec]
           /\ datastores' = f.heap
           /\ net_outputs' = net_outputs \cup
                {[dec |-> d, batch |-> batch,
                  call |-> Cardinality(net_outputs) + 1]}
           /\ dec_call' = [op |-> "forward", dec |-> d, batch |-> batch,
                           retrievals |-> f.dec.retrievals
                                          - decoders[d].retrievals,
                           before |-> datastores]
    /\ UNCHANGED <<global_vars, lsVars, kdVars, critVars, knnVars, recVars,
                   queueVars>>

\* decoder d's get_normalized_probs on a net_output d returned earlier.
DecoderGetNormalizedProbs(net_output) ==
    /\ net_output \in net_outputs
    /\ dec_call' = [op |-> "get_normalized_probs", dec |-> net_output.dec,
                    net_output |-> net_output,
                    ret |-> get_normalized_probs(decoders[net_output.dec],
                                                 net_output)]
    /\ UNCHANGED <<global_vars, datastores, decoders, net_outputs, lsVars,
                   kdVars, critVars, knnVars, recVars, queueVars>>

NextProc ==
    \/ \E knn_mode \in KnnModes : NewDecoder(knn_mode)
    \/ \E d \in 1 .. MaxDecoders, batch \in Batches : DecoderForward(d, batch)
    \/ \E net_output \in net_outputs : DecoderGetNormalizedProbs(net_output)

SpecProc == InitProc /\ [][NextProc]_vars

\* C11 (as claimed): all decoders constructed in the process in the same
\* operating mode hold one and the same Datastore instance.
C11_SameModeDecodersShareDatastore ==
    \A d1, d2 \in DOMAIN decoders :
        decoders[d1].knn_mode = decoders[d2].knn_mode =>
            decoders[d1].datastore = decoders[d2].datastore

\* C12: the decoder dispatches on its operating mode.  In inference and
\* train_metak modes every forward performs exactly one retrieval and
\* get_normalized_probs returns the combination of the kNN probability of
\* the retrieval results with the model's output; in build_datastore mode
\* forward performs no retrieval, the decoder has neither retriever nor
\* combiner, and get_normalized_probs returns the base probabilities.
C12_DecoderDispatchesOnMode ==
    /\ \A d \in DOMAIN decoders :
          IF KnnActive(decoders[d].knn_mode)
          THEN /\ decoders[d].retrievals = decoders[d].forwards
               /\ decoders[d].retriever.present
               /\ decoders[d].combiner # "None"
          ELSE /\ decoders[d].retrievals = 0
               /\ ~decoders[d].retriever.present
               /\ decoders[d].combiner = "None"
    /\ dec_call.op = "forward" =>
          dec_call.retrievals =
              IF KnnActive(decoders[dec_call.dec].knn_mode) THEN 1 ELSE 0
    /\ dec_call.op = "get_normalized_probs" =>
          IF KnnActive(decoders[dec_call.dec].knn_mode)
          THEN /\ dec_call.ret.kind = "combined"
               /\ dec_call.ret.knn_of = decoders[dec_call.dec].retriever.results
               /\ dec_call.ret.knn_of # <<>>
               /\ dec_call.ret.model_of = KeysOf(dec_call.net_output.batch)
          ELSE /\ dec_call.ret.kind = "base"
               /\ dec_call.ret.model_of = KeysOf(dec_call.net_output.batch)

\* C12 witness: a decoder in inference mode combined after its forward,
\* while a build_datastore decoder of the process had run a forward.
C12_Witness ==
    /\ dec_call.op = "get_normalized_probs"
    /\ decoders[dec_call.dec].knn_mode = "inference"
    /\ dec_call.ret.kind = "combined"
    /\ \E d \in DOMAIN decoders :
          decoders[d].knn_mode = "build_datastore" /\ decoders[d].forwards > 0

\* C13 (as claimed): in build_datastore mode each forward call saves the
\* keys of that step to the decoder's datastore; in inference and
\* train_metak modes forward leaves every datastore as it was.
C13_ForwardSavesKeysOnlyWhenBuilding ==
    dec_call.op = "forward" =>
        LET dec == decoders[dec_call.dec]
        IN  IF dec.knn_mode = "build_datastore"
            THEN datastores[dec.datastore].keys =
                     dec_call.before[dec.datastore].keys
                         \o KeysOf(dec_call.batch)
            ELSE datastores = dec_call.before

\* The non-padding positions of the last sample given to the dump
\* criterion's forward, and those the student's argmax gets right.
RecRealPos == {n \in DOMAIN rec_hist.target : rec_hist.target[n] # padding_idx}
RecCorrectPos ==
    {n \in RecRealPos :
        ArgMaxIn(rec_hist.student_logits[n], Vocab) = rec_hist.target[n]}

\* C14 (as claimed, for a positive epsilon): with report_accuracy enabled
\* forward completes and
\* its logging output holds total, the number of non-padding target
\* tokens, and n_correct, the number of those whose argmax prediction
\* equals the target.
C14_ReportAccuracyLogsCounts ==
    (rec_self.report_accuracy /\ rec_hist.calls > 0 /\ rec_self.eps > 0) =>
        /\ rec_ret.status = "returned"
        /\ rec_ret.total = Cardinality(RecRealPos)
        /\ rec_ret.n_correct = Cardinality(RecCorrectPos)

\* C15 (as claimed): for any sequence of forward and get_normalized_probs
\* calls on a decoder in inference or train_metak mode, the retrieval
\* results get_normalized_probs combines with a net_output are those of
\* the forward call that produced that net_output.
C15_CombinesResultsOfOwnForward ==
    (dec_call.op = "get_normalized_probs"
        /\ KnnActive(decoders[dec_call.dec].knn_mode)) =>
        dec_call.ret.knn_of = KeysOf(dec_call.net_output.batch)

\* C16: over any sequence of forward calls on one criterion the teacher
\* is loaded exactly once, in the first call and before that call's loss
\* is computed; later calls reuse it; self.num grows by one per completed
\* forward.
C16_TeacherLoadedOnceInFirstForward ==
    /\ self_num = fw_hist.completed
    /\ self_num = 0 => (fw_hist.loads = 0 /\ self_teacher_model = "None")
    /\ self_num > 0 => (fw_hist.loads = 1 /\ self_teacher_model = "loaded")
    /\ fw_ret.status = "returned" =>
          /\ fw_ret.loaded_teacher <=> (self_num = 1)
          /\ fw_ret.teacher_ran

\* C16 witness: a later forward call reused the teacher of the first.
C16_Witness ==
    /\ self_num = MaxForwards
    /\ fw_hist.completed > 1
    /\ fw_hist.loads = 1
    /\ fw_ret.status = "returned"
    /\ ~fw_ret.loaded_teacher
    /\ fw_ret.teacher_ran

\* --------------------------------- the criterion's FIFO queues
\* self.difficult_queue_size (5000 in the source), scaled down.
difficult_queue_size == 3
\* Number of push calls explored.
MaxPushes == 3

\* tensor[n:] of a flattened tensor: what is left after the first n.
DropFirst(tensor, n) == SubSeq(tensor, n + 1, Len(tensor))

\* push_to_FIFO_queue appending in both branches.
push_without_eviction(queue, tensor) == queue \o tensor

\* push_to_FIFO_queue slicing in both branches.
push_always_evicting(queue, tensor) ==
    DropFirst(queue, Len(tensor)) \o tensor

\* push_to_FIFO_queue(tensor), lines 78-86: the new self.queue.
push_to_FIFO_queue(queue, tensor) ==
    LET tensor_size == Len(tensor)
        current_size == Len(queue)
    IN  IF tensor_size + current_size < difficult_queue_size
        THEN queue \o tensor
        ELSE DropFirst(queue, tensor_size) \o tensor

\* push_to_teacher_FIFO_queue(tensor), lines 88-96: the new
\* self.teacher_loss_queue.
push_to_teacher_FIFO_queue(queue, tensor) ==
    LET tensor_size == Len(tensor)
        current_size == Len(queue)
    IN  IF tensor_size + current_size < difficult_queue_size
        THEN queue \o tensor
        ELSE DropFirst(queue, tensor_size) \o tensor

\* Sizes of the pushed tensors: empty up to one more than the capacity.
TensorSizes == 0 .. (difficult_queue_size + 1)
\* The tensor of a push: its elements are numbered in insertion order.
TensorOf(size, inserted) == [n \in 1 .. size |-> inserted + n]

NoPush == [which |-> "none", tensor |-> <<>>, before |-> <<>>]

\* __init__, lines 49-50: both queues start empty.
InitQueue ==
    /\ self_queue = <<>>
    /\ self_teacher_loss_queue = <<>>
    /\ queue_hist = [pushes |-> 0, inserted |-> 0, oversize |-> FALSE,
                     last |-> NoPush]
    /\ ls_call = Idle /\ ls_ret = Idle /\ kd_call = Idle /\ kd_ret = Idle
    /\ CritIdle /\ KnnIdle /\ RecIdle /\ ProcIdle

QueueHistAfter(which, tensor, before) ==
    [pushes |-> queue_hist.pushes + 1,
     inserted |-> queue_hist.inserted + Len(tensor),
     oversize |-> queue_hist.oversize \/ Len(tensor) > difficult_queue_size,
     last |-> [which |-> which, tensor |-> tensor, before |-> before]]

PushToFIFOQueue(size) ==
    /\ queue_hist.pushes < MaxPushes
    /\ LET tensor == TensorOf(size, queue_hist.inserted)
       IN  /\ self_queue' = push_to_FIFO_queue(self_queue, tensor)
           /\ queue_hist' = QueueHistAfter("queue", tensor, self_queue)
    /\ UNCHANGED <<self_teacher_loss_queue, lsVars, kdVars, critVars,
                   knnVars, recVars, procVars>>

PushToTeacherFIFOQueue(size) ==
    /\ queue_hist.pushes < MaxPushes
    /\ LET tensor == TensorOf(size, queue_hist.inserted)
       IN  /\ self_teacher_loss_queue' =
                push_to_teacher_FIFO_queue(self_teacher_loss_queue, tensor)
           /\ queue_hist' = QueueHistAfter("teacher_loss_queue", tensor,
                                           self_teacher_loss_queue)
    /\ UNCHANGED <<self_queue, lsVars, kdVars, critVars, knnVars, recVars,
                   procVars>>

NextQueue ==
    \/ \E size \in TensorSizes : PushToFIFOQueue(size)
    \/ \E size \in TensorSizes : PushToTeacherFIFOQueue(size)

SpecQueue == InitQueue /\ [][NextQueue]_vars

\* C17: after any sequence of pushes in which every pushed tensor has at
\* most difficult_queue_size elements, neither queue holds more than
\* difficult_queue_size elements.
C17_QueueNeverExceedsCapacity ==
    ~queue_hist.oversize =>
        /\ Len(self_queue) <= difficult_queue_size
        /\ Len(self_teacher_loss_queue) <= difficult_queue_size

\* C17 witness: pushes within the limit filled self.queue to capacity and
\* a later push evicted its oldest element.
C17_Witness ==
    /\ ~queue_hist.oversize
    /\ Len(self_queue) = difficult_queue_size
    /\ queue_hist.last.which = "queue"
    /\ Len(queue_hist.last.before) = difficult_queue_size
    /\ Len(queue_hist.last.tensor) > 0
    /\ self_queue[1] > queue_hist.last.before[1]

\* What the last push_to_FIFO_queue call kept of the queue it found.
KeptOfLastPush ==
    SubSeq(self_queue, 1, Len(self_queue) - Len(queue_hist.last.tensor))

IsSuffix(s, t) ==
    Len(s) <= Len(t) /\ SubSeq(t, Len(t) - Len(s) + 1, Len(t)) = s

\* C18: push_to_FIFO_queue is first-in-first-out.  After every push the
\* queue ends with the pushed tensor in order; the surviving elements are
\* the most recently inserted ones in insertion order (an element goes
\* only if every element inserted before it has gone); nothing is evicted
\* when queue plus tensor hold fewer than difficult_queue_size elements.
C18_PushIsFirstInFirstOut ==
    queue_hist.last.which = "queue" =>
        LET tensor == queue_hist.last.tensor
            before == queue_hist.last.before
        IN  /\ Len(self_queue) >= Len(tensor)
            /\ SubSeq(self_queue, Len(self_queue) - Len(tensor) + 1,
                      Len(self_queue)) = tensor
            /\ IsSuffix(KeptOfLastPush, before)
            /\ \A i, j \in DOMAIN self_queue :
                  i < j => self_queue[i] < self_queue[j]
            /\ Len(before) + Len(tensor) < difficult_queue_size =>
                  KeptOfLastPush = before

\* C18 witness: a push evicted the oldest elements and kept younger ones.
C18_Witness ==
    /\ queue_hist.last.which = "queue"
    /\ Len(KeptOfLastPush) > 0
    /\ Len(KeptOfLastPush) < Len(queue_hist.last.before)
    /\ Len(queue_hist.last.tensor) > 0

====
